---- MODULE Spec2Model ----
(***************************************************************************)
(* A model of the single-tape Turing machine interpreter of src/lib.rs:    *)
(* TuringMachine::new, TuringMachine::step and TuringMachine::run.         *)
(*                                                                         *)
(* Up to two instances are built from one machine description (the        *)
(* arguments of new).  Every field of an instance is a function of the     *)
(* instance number.  The tape is a sequence; the head is the 0-based index *)
(* of the source, so the cell under the head is tape[head + 1].            *)
(***************************************************************************)
EXTENDS Integers, Sequences, FiniteSets, TLC

\* Bound on the number of step() invocations made on one instance.
MaxCalls == 16
\* Bound on the length of the initial tape handed to new.
MaxTape == 2

\* The instances of TuringMachine.
Instances == {1, 2}

\* The values of the generic parameters T (states) and M (symbols).
StateU == {"A", "B", "C", "H"}
SymbolU == {"0", "1"}

\* enum Movement
Movement == {"Left", "Right"}

(***************************************************************************)
(* Transition functions.  A transition is a function from the pairs        *)
(* <<symbol, state>> it is defined on to triples <<symbol, movement,       *)
(* state>>; a call outside its domain reaches the unreachable!() arm.      *)
(***************************************************************************)

\* The closure of the busy_beaver test.
BusyBeaverTable ==
    (<<"0", "A">> :> <<"1", "Right", "B">>) @@
    (<<"0", "B">> :> <<"1", "Left", "A">>) @@
    (<<"0", "C">> :> <<"1", "Left", "B">>) @@
    (<<"1", "A">> :> <<"1", "Left", "C">>) @@
    (<<"1", "B">> :> <<"1", "Right", "B">>) @@
    (<<"1", "C">> :> <<"1", "Right", "H">>)

\* The table of the two-state scenario.
ScenarioTable ==
    (<<"0", "A">> :> <<"1", "Right", "B">>) @@
    (<<"1", "A">> :> <<"1", "Left", "H">>) @@
    (<<"0", "B">> :> <<"1", "Left", "A">>) @@
    (<<"1", "B">> :> <<"1", "Right", "B">>)

\* Every total transition whose rows for state A are arbitrary (any symbol
\* written, any movement, next state A or H) and whose other rows move
\* right without changing the cell or the state.
RowChoices == SymbolU \X Movement \X {"A", "H"}
FamilyTable(r0, r1) ==
    [p \in SymbolU \X StateU |->
        IF p[2] = "A" THEN (IF p[1] = "0" THEN r0 ELSE r1)
        ELSE <<p[1], "Right", p[2]>>]
FamilyTables == {FamilyTable(r0, r1) : r0 \in RowChoices, r1 \in RowChoices}

\* Initial tapes: every sequence of symbols of length 0..MaxTape.
Tapes == UNION {[1..n -> SymbolU] : n \in 0..MaxTape}

(***************************************************************************)
(* The arguments of new: a machine description and an initial tape.        *)
(***************************************************************************)
Description(ss, ys, b, q0, f, d, t) ==
    [state_set |-> ss, symbol_set |-> ys, blank_symbol |-> b,
     initial_state |-> q0, final_state_set |-> f, transition |-> d, tape |-> t]

\* The arguments of the busy_beaver test.
BusyBeaverArgs ==
    Description({"A", "B", "C", "H"}, {"0", "1"}, "0", "A", {"H"},
                BusyBeaverTable, <<"0">>)

\* The arguments of the two-state scenario.
ScenarioArgs ==
    Description({"A", "B", "H"}, {"0", "1"}, "0", "A", {"H"},
                ScenarioTable, <<"0">>)

\* Descriptions that pass or fail each of the four assertions of new.
StateSets == {{}, {"B", "H"}, {"A", "B", "H"}, StateU}
SymbolSets == {{}, {"0"}, {"1"}, SymbolU}
ValidationArgs ==
    {Description(ss, ys, b, q0, {"H"}, ScenarioTable, <<"0">>) :
        ss \in StateSets, ys \in SymbolSets, b \in SymbolU, q0 \in {"A", "H"}}

\* Well-formed descriptions over every family transition and initial tape.
FamilyArgs ==
    {Description(StateU, SymbolU, b, q0, f, d, t) :
        b \in SymbolU, q0 \in {"A", "H"}, f \in {{}, {"H"}},
        d \in FamilyTables, t \in Tapes}

\* Descriptions new does not check further: a final state outside state_set,
\* tape symbols outside symbol_set.
UncheckedArgs ==
    {Description({"A", "B", "H"}, {"0"}, "0", "A", f, ScenarioTable, t) :
        f \in {{"H"}, {"Z"}, {"H", "Z"}},
        t \in {<<"0">>, <<"1">>, <<"0", "1">>}}

\* Transitions defined on the symbol 0 and the states A and H only, writing 0.
UnaryTable(r) ==
    [p \in {"0"} \X {"A", "H"} |->
        IF p[2] = "A" THEN r ELSE <<"0", "Right", "H">>]

\* Descriptions over the one-symbol alphabet {0}.
UnaryArgs ==
    {Description({"A", "H"}, {"0"}, b, "A", {"H"}, UnaryTable(r), t) :
        b \in SymbolU, r \in {"0"} \X Movement \X {"A", "H"},
        t \in {<<"0">>, <<"0", "0">>, <<"1", "0">>}}

AllArgs ==
    {BusyBeaverArgs, ScenarioArgs} \cup ValidationArgs \cup FamilyArgs
        \cup UncheckedArgs \cup UnaryArgs

VARIABLES
    args,           \* the arguments every instance is built from
    pc,             \* where the caller of each instance is
    panic,          \* why the instance's thread panicked, or "none"
    current_state,  \* TuringMachine.current_state
    head,           \* TuringMachine.head
    tape,           \* TuringMachine.tape
    calls,          \* step() invocations made so far
    executed,       \* step() invocations that returned true
    last_ret,       \* what the last step() returned: <<>> before any, else <<b>>
    invoked,        \* the <<symbol, state>> pairs transition was called with
    reads,          \* tape reads performed by step()
    offset,         \* logical displacement of the head from its starting cell
    lo,             \* least logical position the head has occupied
    hi,             \* greatest logical position the head has occupied
    trace,          \* the records step() has printed
    fresh,          \* per cell: created by an extension and not yet written
    halt_snap,      \* configuration at the first false step() of this run()
    loop2_iters,    \* iterations of the second loop of run()
    result          \* what the last run() returned: <<>> or <<tape>>

vars == <<args, pc, panic, current_state, head, tape, calls, executed,
          last_ret, invoked, reads, offset, lo, hi, trace, fresh, halt_snap,
          loop2_iters, result>>

\* The immutable fields of an instance are those of the description.
state_set == args.state_set
symbol_set == args.symbol_set
blank_symbol == args.blank_symbol
initial_state == args.initial_state
final_state_set == args.final_state_set
transition == args.transition

\* The configuration of instance i.
Config(i) ==
    [current_state |-> current_state[i], head |-> head[i], tape |-> tape[i]]

InitWith(A) ==
    /\ args \in A
    /\ pc = [i \in Instances |-> "unbuilt"]
    /\ panic = [i \in Instances |-> "none"]
    /\ current_state = [i \in Instances |-> args.initial_state]
    /\ head = [i \in Instances |-> 0]
    /\ tape = [i \in Instances |-> <<>>]
    /\ calls = [i \in Instances |-> 0]
    /\ executed = [i \in Instances |-> 0]
    /\ last_ret = [i \in Instances |-> <<>>]
    /\ invoked = [i \in Instances |-> <<>>]
    /\ reads = [i \in Instances |-> 0]
    /\ offset = [i \in Instances |-> 0]
    /\ lo = [i \in Instances |-> 0]
    /\ hi = [i \in Instances |-> 0]
    /\ trace = [i \in Instances |-> <<>>]
    /\ fresh = [i \in Instances |-> <<>>]
    /\ halt_snap = [i \in Instances |-> {}]
    /\ loop2_iters = [i \in Instances |-> 0]
    /\ result = [i \in Instances |-> <<>>]

Init == InitWith(AllArgs)

(***************************************************************************)
(* TuringMachine::new                                                      *)
(***************************************************************************)

\* Validate without the assertion on blank_symbol.
ValidateNoBlank(a) ==
    /\ a.state_set # {}
    /\ a.initial_state \in a.state_set
    /\ a.symbol_set # {}

\* Validate also requiring final_state_set to be a subset of state_set.
ValidateStrict(a) ==
    /\ a.state_set # {}
    /\ a.initial_state \in a.state_set
    /\ a.symbol_set # {}
    /\ a.blank_symbol \in a.symbol_set
    /\ a.final_state_set \subseteq a.state_set

\* The four assertions of new.
Validate(a) ==
    /\ a.state_set # {}
    /\ a.initial_state \in a.state_set
    /\ a.symbol_set # {}
    /\ a.blank_symbol \in a.symbol_set

New(i) ==
    /\ pc[i] = "unbuilt"
    /\ IF Validate(args)
       THEN /\ pc' = [pc EXCEPT ![i] = "idle"]
            /\ panic' = panic
            /\ head' = [head EXCEPT ![i] = 0]
            /\ current_state' = [current_state EXCEPT ![i] = initial_state]
            /\ tape' = [tape EXCEPT ![i] = args.tape]
            /\ fresh' = [fresh EXCEPT ![i] = [k \in 1..Len(args.tape) |-> FALSE]]
       ELSE /\ pc' = [pc EXCEPT ![i] = "failed"]
            /\ panic' = [panic EXCEPT ![i] = "assert"]
            /\ UNCHANGED <<head, current_state, tape, fresh>>
    /\ UNCHANGED <<args, calls, executed, last_ret, invoked, reads, offset, lo, hi, trace,
                   halt_snap, loop2_iters, result>>

(***************************************************************************)
(* TuringMachine::step                                                     *)
(***************************************************************************)

\* The halting test applied to initial_state instead of current_state.
HaltedInitial(q) == initial_state \in final_state_set

\* step() without its halting test.
HaltedNever(q) == FALSE

\* if self.final_state_set.contains(&self.current_state)
Halted(q) == q \in final_state_set

\* current_state kept in one place shared by every instance.
CurrentStateShared(i) == current_state[1]

\* self.current_state
CurrentState(i) == current_state[i]

\* self.tape[self.head] is in bounds
InBounds(t, h) == h < Len(t)

\* self.tape[self.head]
Cell(t, h) == t[h + 1]

\* The write made after the head has moved right.
WriteCellNext(t, h, s) == [t EXCEPT ![h + 2] = s]

\* self.tape[self.head] = symbol
WriteCell(t, h, s) == [t EXCEPT ![h + 1] = s]

\* Movement::Left pushing a copy of the first cell instead of the blank.
MoveLeftDup(t, h, b) ==
    IF h = 0
    THEN [tape |-> <<t[1]>> \o t, head |-> h]
    ELSE [tape |-> t, head |-> h - 1]

\* Movement::Left decrementing the head after a left-extension as well.
MoveLeftStay(t, h, b) ==
    IF h = 0
    THEN [tape |-> <<b>> \o t, head |-> h + 1]
    ELSE [tape |-> t, head |-> h - 1]

\* Movement::Left: push_front(blank) at index 0, else head -= 1
MoveLeft(t, h, b) ==
    IF h = 0
    THEN [tape |-> <<b>> \o t, head |-> h]
    ELSE [tape |-> t, head |-> h - 1]

\* Movement::Right padding the tape one cell beyond the head.
MoveRightPad(t, h, b) ==
    LET h1 == h + 1
    IN  [tape |-> IF Len(t) <= h1 + 1
                  THEN t \o [k \in 1..(h1 + 2 - Len(t)) |-> b] ELSE t,
         head |-> h1]

\* Movement::Right pushing a blank on every move.
MoveRightEager(t, h, b) == [tape |-> Append(t, b), head |-> h + 1]

\* Movement::Right never extending the tape.
MoveRightNoPush(t, h, b) == [tape |-> t, head |-> h + 1]

\* Movement::Right: head += 1, then push_back(blank) if len <= head
MoveRight(t, h, b) ==
    LET h1 == h + 1
    IN  [tape |-> IF Len(t) <= h1 THEN Append(t, b) ELSE t, head |-> h1]

\* match movement
Move(t, h, b, movement) ==
    IF movement = "Left" THEN MoveLeft(t, h, b) ELSE MoveRight(t, h, b)

\* Which cells are untouched extensions after a transition at index h.
FreshAfter(f, h, movement) ==
    LET f1 == [f EXCEPT ![h + 1] = FALSE]
    IN  IF movement = "Left" /\ h = 0 THEN <<TRUE>> \o f1
        ELSE IF movement = "Right" /\ Len(f) <= h + 1 THEN Append(f1, TRUE)
        ELSE f1

\* The record printed with the state and the symbol read after their update.
TraceRecordLate(q, old, state, symbol, movement) ==
    <<state, symbol, state, symbol, movement>>

\* println!("{:?} {:?} => {:?} {:?} {:?}", current_state, tape[head], state,
\* symbol, movement)
TraceRecord(q, old, state, symbol, movement) ==
    <<q, old, state, symbol, movement>>

\* step() reporting false as soon as the new state is final.
StepReturnEager(state) == state \notin final_state_set

\* The value step() returns after a transition into state: true
StepReturn(state) == TRUE

\* One invocation of step() on instance i: everything but the caller's pc.
StepBody(i) ==
    /\ calls[i] < MaxCalls
    /\ calls' = [calls EXCEPT ![i] = @ + 1]
    /\ IF Halted(CurrentState(i))
       THEN /\ last_ret' = [last_ret EXCEPT ![i] = <<FALSE>>]
            /\ UNCHANGED <<panic, current_state, head, tape, executed,
                           invoked, reads, offset, lo, hi, trace, fresh>>
       ELSE IF ~InBounds(tape[i], head[i])
       THEN \* index out of bounds: the thread panics before transition runs
            /\ panic' = [panic EXCEPT ![i] = "index"]
            /\ UNCHANGED <<last_ret, current_state, head, tape, executed,
                           invoked, reads, offset, lo, hi, trace, fresh>>
       ELSE LET old == Cell(tape[i], head[i])
                pair == <<old, CurrentState(i)>>
            IN  /\ invoked' = [invoked EXCEPT ![i] = Append(@, pair)]
                /\ IF pair \notin DOMAIN transition
                   THEN \* the closure panics (unreachable!())
                        /\ panic' = [panic EXCEPT ![i] = "unreachable"]
                        /\ reads' = [reads EXCEPT ![i] = @ + 1]
                        /\ UNCHANGED <<last_ret, current_state, head, tape,
                                       executed, offset, lo, hi, trace, fresh>>
                   ELSE LET symbol == transition[pair][1]
                            movement == transition[pair][2]
                            state == transition[pair][3]
                            m == Move(WriteCell(tape[i], head[i], symbol),
                                      head[i], blank_symbol, movement)
                        IN  /\ reads' = [reads EXCEPT ![i] = @ + 2]
                            /\ current_state' =
                                   [current_state EXCEPT ![i] = state]
                            /\ tape' = [tape EXCEPT ![i] = m.tape]
                            /\ head' = [head EXCEPT ![i] = m.head]
                            /\ fresh' = [fresh EXCEPT ![i] =
                                   FreshAfter(@, head[i], movement)]
                            /\ offset' = [offset EXCEPT ![i] =
                                   IF movement = "Left" THEN @ - 1 ELSE @ + 1]
                            /\ lo' = [lo EXCEPT ![i] =
                                   IF offset'[i] < @ THEN offset'[i] ELSE @]
                            /\ hi' = [hi EXCEPT ![i] =
                                   IF offset'[i] > @ THEN offset'[i] ELSE @]
                            /\ trace' = [trace EXCEPT ![i] = Append(@,
                                   TraceRecord(CurrentState(i), old, state,
                                               symbol, movement))]
                            /\ executed' = [executed EXCEPT ![i] = @ + 1]
                            /\ last_ret' = [last_ret EXCEPT ![i] =
                                   <<StepReturn(state)>>]
                            /\ panic' = panic
    /\ args' = args

\* The caller invokes step() directly.
Step(i) ==
    /\ pc[i] = "idle"
    /\ StepBody(i)
    /\ pc' = [pc EXCEPT ![i] =
                 IF panic'[i] # "none" THEN "panicked" ELSE "idle"]
    /\ UNCHANGED <<halt_snap, loop2_iters, result>>

(***************************************************************************)
(* TuringMachine::run                                                      *)
(***************************************************************************)

\* The caller invokes run().
RunCall(i) ==
    /\ pc[i] = "idle"
    /\ calls[i] < MaxCalls
    /\ pc' = [pc EXCEPT ![i] = "run1"]
    /\ halt_snap' = [halt_snap EXCEPT ![i] = {}]
    /\ loop2_iters' = [loop2_iters EXCEPT ![i] = 0]
    /\ result' = [result EXCEPT ![i] = <<>>]
    /\ UNCHANGED <<args, panic, current_state, head, tape, calls, executed,
                   last_ret, invoked, reads, offset, lo, hi, trace, fresh>>

\* The configuration recorded when a step() of this run() first returns false.
SnapAfter(i) ==
    IF panic'[i] = "none" /\ last_ret'[i] = <<FALSE>> /\ halt_snap[i] = {}
    THEN {[current_state |-> current_state'[i], head |-> head'[i],
           tape |-> tape'[i]]}
    ELSE halt_snap[i]

\* The first loop of run() made a single call: if self.step() {}
Loop1Never(ret) == FALSE

\* The condition of the first loop: while self.step()
Loop1Continues(ret) == ret = <<TRUE>>

\* while self.step() {}
RunLoop1(i) ==
    /\ pc[i] = "run1"
    /\ StepBody(i)
    /\ pc' = [pc EXCEPT ![i] =
                 IF panic'[i] # "none" THEN "panicked"
                 ELSE IF Loop1Continues(last_ret'[i]) THEN "run1" ELSE "run2"]
    /\ halt_snap' = [halt_snap EXCEPT ![i] = SnapAfter(i)]
    /\ UNCHANGED <<loop2_iters, result>>

\* run() returning the tape it was constructed with.
RunResultStale(i) == args.tape

\* self.tape.clone()
RunResult(i) == tape[i]

\* while !self.final_state_set.contains(&self.current_state) { self.step(); }
\* and then the return of the tape's clone
RunLoop2(i) ==
    /\ pc[i] = "run2"
    /\ IF ~Halted(CurrentState(i))
       THEN /\ StepBody(i)
            /\ pc' = [pc EXCEPT ![i] =
                         IF panic'[i] # "none" THEN "panicked" ELSE "run2"]
            /\ halt_snap' = [halt_snap EXCEPT ![i] = SnapAfter(i)]
            /\ loop2_iters' = [loop2_iters EXCEPT ![i] = @ + 1]
            /\ result' = result
       ELSE /\ pc' = [pc EXCEPT ![i] = "idle"]
            /\ result' = [result EXCEPT ![i] = <<RunResult(i)>>]
            /\ UNCHANGED <<args, panic, current_state, head, tape, calls,
                           executed, last_ret, invoked, reads, offset, lo, hi, trace, fresh,
                           halt_snap, loop2_iters>>

(***************************************************************************)
(* Specifications                                                          *)
(***************************************************************************)

\* Everything a single-threaded caller can do with instance i.
Calls(i) ==
    \/ New(i)
    \/ Step(i)
    \/ RunCall(i)
    \/ RunLoop1(i)
    \/ RunLoop2(i)

\* One instance.
Next == Calls(1)

Spec == Init /\ [][Next]_vars

\* Two instances built from the same arguments, each used independently.
PairTapes == {<<>>, <<"0">>, <<"1", "0">>}
PairArgs ==
    {BusyBeaverArgs, ScenarioArgs} \cup
    {Description(StateU, SymbolU, "0", "A", {"H"}, FamilyTable(r0, r1), t) :
        r0 \in RowChoices, r1 \in {<<"1", "Left", "A">>, <<"0", "Right", "H">>},
        t \in PairTapes}

InitPair == InitWith(PairArgs)

NextPair == Calls(1) \/ Calls(2)

SpecPair == InitPair /\ [][NextPair]_vars

\* The caller of the busy_beaver test: new, then a single run().  The
\* program is sequential, so a call that can proceed does proceed.
FirstRun(i) == calls[i] = 0 /\ RunCall(i)

NextTest ==
    \/ New(1)
    \/ FirstRun(1)
    \/ RunLoop1(1)
    \/ RunLoop2(1)

SpecTest == Init /\ [][NextTest]_vars /\ WF_vars(NextTest)

(***************************************************************************)
(* Claims                                                                  *)
(***************************************************************************)

\* new returned an instance.
Built(i) == pc[i] \notin {"unbuilt", "failed"}

\* C1: new fails with an assertion failure, and returns no instance, for
\* every description whose state_set is empty, or does not contain
\* initial_state, or whose symbol_set is empty, or does not contain
\* blank_symbol.
C1_ConstructionFails ==
    \A i \in Instances :
        (/\ pc[i] # "unbuilt"
         /\ \/ args.state_set = {}
            \/ args.initial_state \notin args.state_set
            \/ args.symbol_set = {}
            \/ args.blank_symbol \notin args.symbol_set)
        => (pc[i] = "failed" /\ panic[i] = "assert" /\ calls[i] = 0)

\* new has failed on a description whose only defect is the blank symbol.
C1_Witness ==
    /\ pc[1] = "failed"
    /\ args.state_set # {}
    /\ args.initial_state \in args.state_set
    /\ args.symbol_set # {}
    /\ args.blank_symbol \notin args.symbol_set

\* C2: once current_state is in final_state_set, no call changes tape, head
\* or current_state, and every step() call returns false without invoking
\* the transition function and without reading the tape.
C2_HaltingIdempotence ==
    [][\A i \in Instances :
        (Built(i) /\ current_state[i] \in args.final_state_set)
        => /\ current_state'[i] = current_state[i]
           /\ head'[i] = head[i]
           /\ tape'[i] = tape[i]
           /\ invoked'[i] = invoked[i]
           /\ reads'[i] = reads[i]
           /\ executed'[i] = executed[i]
           /\ panic'[i] = "none"
           /\ (calls'[i] # calls[i] => last_ret'[i] = <<FALSE>>)]_vars

\* A machine that executed transitions, halted, and was then stepped at
\* least three more times.
C2_Witness ==
    /\ current_state[1] \in args.final_state_set
    /\ executed[1] >= 2
    /\ calls[1] >= executed[1] + 3
    /\ last_ret[1] = <<FALSE>>

\* C3: for every instance new returned, the head is always inside the tape,
\* 0 <= head < tape length, and step() never reads the tape out of bounds.
C3_HeadInBounds ==
    \A i \in Instances :
        Built(i) => (0 <= head[i] /\ head[i] < Len(tape[i]) /\ panic[i] # "index")

\* C4: after n transitions the tape is at most n cells longer than the
\* initial tape and the head's logical displacement is at most n in
\* absolute value; n is at most the number of step() calls.
C4_TapeGrowthBound ==
    \A i \in Instances :
        Built(i) =>
            /\ Len(tape[i]) <= Len(args.tape) + executed[i]
            /\ offset[i] <= executed[i]
            /\ 0 - offset[i] <= executed[i]
            /\ executed[i] <= calls[i]

\* The tape has grown by one cell in each of three transitions.
C4_Witness ==
    /\ executed[1] = 3
    /\ Len(tape[1]) = Len(args.tape) + 3
    /\ offset[1] = 3

\* C5: every cell created by a left- or right-extension and not written
\* since holds blank_symbol.
C5_BlankFill ==
    \A i \in Instances :
        Built(i) =>
            \A k \in 1..Len(fresh[i]) :
                fresh[i][k] => (k <= Len(tape[i]) /\ tape[i][k] = args.blank_symbol)

\* A left-extension has put a fresh blank in front of a non-blank cell.
C5_Witness ==
    /\ Built(1)
    /\ Len(fresh[1]) >= 2
    /\ fresh[1][1]
    /\ head[1] = 0
    /\ tape[1][2] # args.blank_symbol

\* C6: the two-state scenario passes through (tape [1,0], head 1, state B),
\* (tape [1,1], head 0, state A) and (tape [0,1,1], head 0, state H), and
\* run() returns [0,1,1] after exactly 3 transitions.
C6_Scenario ==
    \A i \in Instances :
        (args = ScenarioArgs /\ Built(i)) =>
            /\ executed[i] = 0 =>
                   Config(i) = [current_state |-> "A", head |-> 0,
                                tape |-> <<"0">>]
            /\ executed[i] = 1 =>
                   Config(i) = [current_state |-> "B", head |-> 1,
                                tape |-> <<"1", "0">>]
            /\ executed[i] = 2 =>
                   Config(i) = [current_state |-> "A", head |-> 0,
                                tape |-> <<"1", "1">>]
            /\ executed[i] = 3 =>
                   Config(i) = [current_state |-> "H", head |-> 0,
                                tape |-> <<"0", "1", "1">>]
            /\ executed[i] <= 3
            /\ panic[i] = "none"
            /\ result[i] # <<>> =>
                   (result[i] = <<(<<"0", "1", "1">>)>> /\ executed[i] = 3)

\* run() has returned on the scenario having executed all the transitions
\* itself.
C6_Witness ==
    /\ args = ScenarioArgs
    /\ result[1] = <<(<<"0", "1", "1">>)>>
    /\ executed[1] = 3
    /\ calls[1] = 4

\* C7: when run() has returned, its return value is the tape at the moment
\* step() first returned false, current_state is final, and current_state,
\* head and tape are what they were at that moment.
C7_RunReturnsHaltedTape ==
    \A i \in Instances :
        result[i] # <<>> =>
            /\ current_state[i] \in args.final_state_set
            /\ halt_snap[i] # {}
            /\ \A s \in halt_snap[i] :
                   /\ result[i] = <<s.tape>>
                   /\ Config(i) = s

\* run() has returned a tape that transitions had changed.
C7_Witness ==
    /\ result[1] # <<>>
    /\ executed[1] >= 2
    /\ result[1] # <<args.tape>>
    /\ pc[1] = "idle"

\* The states some chain of n transitions leads to from the states S.
RECURSIVE ReachFrom(_, _)
ReachFrom(S, n) ==
    IF n = 0 THEN S
    ELSE ReachFrom(S \cup {args.transition[p][3] :
                              p \in {x \in DOMAIN args.transition : x[2] \in S}},
                   n - 1)

\* The states on a transition path from initial_state.
Reachable == ReachFrom({args.initial_state}, Cardinality(StateU))

\* No transition path from initial_state reaches final_state_set, and the
\* transition function is defined wherever such a path can call it.
NeverHalting ==
    /\ Reachable \cap args.final_state_set = {}
    /\ \A q \in Reachable : \A y \in SymbolU : <<y, q>> \in DOMAIN args.transition

\* C8: for a machine whose final_state_set is on no transition path from
\* initial_state, run() never returns and never stops: no step() returns
\* false and nothing ends the first loop of run().
C8_RunsForever ==
    \A i \in Instances :
        (Built(i) /\ NeverHalting) =>
            /\ result[i] = <<>>
            /\ last_ret[i] # <<FALSE>>
            /\ pc[i] \in {"idle", "run1"}

BusyBeaverSafe ==
    /\ panic[1] = "none"
    /\ \A k \in 1..Len(invoked[1]) :
           /\ invoked[1][k] \in DOMAIN BusyBeaverTable
           /\ invoked[1][k][2] # "H"

\* The busy_beaver run has returned in state H.
BusyBeaverReturned ==
    /\ result[1] # <<>>
    /\ current_state[1] = "H"
    /\ pc[1] = "idle"

\* C10: the busy_beaver test's run() eventually reaches state H and
\* returns, and transition is only ever called on one of its six defined
\* pairs, never with state H.
C10_BusyBeaverHalts ==
    (args = BusyBeaverArgs) => ([]BusyBeaverSafe /\ <>BusyBeaverReturned)

\* The busy_beaver run has returned.
C10_Witness ==
    /\ args = BusyBeaverArgs
    /\ BusyBeaverReturned
    /\ Len(invoked[1]) = executed[1]
    /\ executed[1] > 6

\* C11: whenever the four checks pass, new succeeds whatever the initial
\* tape holds and whether or not final_state_set is a subset of state_set,
\* and the new instance has current_state = initial_state, head = 0 and
\* the caller's tape.
C11_NewSucceeds ==
    \A i \in Instances :
        (/\ pc[i] # "unbuilt"
         /\ args.state_set # {}
         /\ args.initial_state \in args.state_set
         /\ args.symbol_set # {}
         /\ args.blank_symbol \in args.symbol_set)
        => /\ Built(i)
           /\ calls[i] = 0 =>
                  /\ current_state[i] = args.initial_state
                  /\ head[i] = 0
                  /\ tape[i] = args.tape
                  /\ panic[i] = "none"

\* new has returned an instance for a final state outside state_set and a
\* tape symbol outside symbol_set.
C11_Witness ==
    /\ pc[1] = "idle"
    /\ calls[1] = 0
    /\ ~(args.final_state_set \subseteq args.state_set)
    /\ \E k \in 1..Len(args.tape) : args.tape[k] \notin args.symbol_set
    /\ tape[1] = args.tape

\* The movement of the transition a step has just executed on instance i.
MovedLeft(i) == offset'[i] < offset[i]

\* How far the old cells moved in the sequence: 1 after a left-extension.
Shift(i) == IF MovedLeft(i) /\ head[i] = 0 THEN 1 ELSE 0

\* C12: a step() that returns true emits exactly one record, the quintuple
\* (state before, symbol under the head before the write, new state, new
\* symbol, movement); a step() that returns false emits none; the number of
\* records is the number of transitions executed.
C12_TraceRecords ==
    [][\A i \in Instances :
        calls'[i] # calls[i] =>
            /\ Len(trace'[i]) = executed'[i]
            /\ IF panic'[i] = "none" /\ last_ret'[i] = <<TRUE>>
               THEN trace'[i] = Append(trace[i],
                        <<current_state[i], tape[i][head[i] + 1],
                          current_state'[i],
                          tape'[i][head[i] + 1 + Shift(i)],
                          IF MovedLeft(i) THEN "Left" ELSE "Right">>)
               ELSE trace'[i] = trace[i]]_vars

\* Three records were emitted in five calls, the first for a transition
\* that changed both the state and the symbol.
C12_Witness ==
    /\ Len(trace[1]) = 3
    /\ calls[1] = 5
    /\ trace[1][1][1] # trace[1][1][3]
    /\ trace[1][1][2] # trace[1][1][4]

\* C13: a step() that executes a transition calls transition with the
\* symbol under the head and current_state, sets current_state to the state
\* returned and writes the symbol returned into the cell that was under the
\* head; every other cell keeps its content at its logical position (index
\* i + 1 after a left-extension, where head stays 0 on the fresh blank).
C13_TransitionFrame ==
    [][\A i \in Instances :
        executed'[i] # executed[i] =>
            LET pair == <<tape[i][head[i] + 1], current_state[i]>>
                r == args.transition[pair]
                shift == IF r[2] = "Left" /\ head[i] = 0 THEN 1 ELSE 0
            IN  /\ invoked'[i] = Append(invoked[i], pair)
                /\ current_state'[i] = r[3]
                /\ tape'[i][head[i] + 1 + shift] = r[1]
                /\ \A k \in 1..Len(tape[i]) :
                       k # head[i] + 1 => tape'[i][k + shift] = tape[i][k]
                /\ shift = 1 =>
                       (head'[i] = 0 /\ tape'[i][1] = args.blank_symbol)]_vars

\* A left-extension has happened on a tape of distinct cells.
C13_Witness ==
    /\ lo[1] < 0
    /\ head[1] = 0
    /\ fresh[1][1]
    /\ Len(tape[1]) >= 3
    /\ tape[1][2] # tape[1][3]

\* C14: every step() changes the tape length by 0 or +1; it grows by one
\* exactly when the movement is Left with head = 0 or Right with
\* head = length - 1 (so the guard len <= head fires only with head = len).
C14_GrowthPolicy ==
    [][\A i \in Instances :
        Built(i) =>
            LET d == Len(tape'[i]) - Len(tape[i])
                stepped == executed'[i] # executed[i]
            IN  /\ d \in {0, 1}
                /\ d = 1 <=>
                       /\ stepped
                       /\ \/ MovedLeft(i) /\ head[i] = 0
                          \/ ~MovedLeft(i) /\ head[i] = Len(tape[i]) - 1
                /\ stepped => head[i] + 1 <= Len(tape[i])]_vars

\* The tape has grown at both ends and some transitions did not grow it.
C14_Witness ==
    /\ hi[1] >= Len(args.tape)
    /\ lo[1] <= 0 - 1
    /\ executed[1] > Len(tape[1]) - Len(args.tape)

Max(a, b) == IF a > b THEN a ELSE b
Min(a, b) == IF a < b THEN a ELSE b

\* C15: for a non-empty initial tape of length L0 the tape length is
\* max(L0 - 1, R) - min(0, Lm) + 1, where Lm and R are the least and the
\* greatest logical positions the head has occupied.
C15_TapeCoversExcursion ==
    \A i \in Instances :
        (Built(i) /\ args.tape # <<>>) =>
            Len(tape[i]) =
                Max(Len(args.tape) - 1, hi[i]) - Min(0, lo[i]) + 1

\* Six transitions on a tape that grew by one cell only.
C15_Witness ==
    /\ Len(args.tape) = 2
    /\ executed[1] >= 6
    /\ lo[1] = 0 - 1
    /\ Len(tape[1]) = 3

\* C16: a step() whose transition returns a final state still returns true
\* and completes the write and the head movement, extension included; a
\* step() called in a final state returns false.
C16_LazyHalting ==
    [][\A i \in Instances :
        (Built(i) /\ calls'[i] # calls[i]) =>
            IF current_state[i] \in args.final_state_set
            THEN last_ret'[i] = <<FALSE>> /\ executed'[i] = executed[i]
            ELSE LET n == Len(tape[i])
                     pair == <<tape[i][head[i] + 1], current_state[i]>>
                     r == args.transition[pair]
                 IN  (/\ head[i] < n
                      /\ pair \in DOMAIN args.transition
                      /\ r[3] \in args.final_state_set)
                     => /\ last_ret'[i] = <<TRUE>>
                        /\ current_state'[i] = r[3]
                        /\ IF r[2] = "Left"
                           THEN IF head[i] = 0
                                THEN /\ head'[i] = 0
                                     /\ Len(tape'[i]) = n + 1
                                     /\ tape'[i][2] = r[1]
                                ELSE /\ head'[i] = head[i] - 1
                                     /\ Len(tape'[i]) = n
                                     /\ tape'[i][head[i] + 1] = r[1]
                           ELSE /\ head'[i] = head[i] + 1
                                /\ Len(tape'[i]) = Max(n, head[i] + 2)
                                /\ tape'[i][head[i] + 1] = r[1]]_vars

\* The transition into the final state returned true and extended the tape.
C16_Witness ==
    /\ current_state[1] \in args.final_state_set
    /\ last_ret[1] = <<TRUE>>
    /\ executed[1] = 2
    /\ Len(tape[1]) = Len(args.tape) + 2

\* C17: run() is step() repeated until it first returns false: when run()
\* returns after n transitions it has called step() n + 1 times, the last
\* call returning false, and the body of its second loop never runs.
C17_RunIsStepUntilFalse ==
    \A i \in Instances :
        /\ loop2_iters[i] = 0
        /\ pc[i] = "run2" =>
               (last_ret[i] = <<FALSE>> /\ calls[i] = executed[i] + 1)
        /\ result[i] # <<>> =>
               (last_ret[i] = <<FALSE>> /\ calls[i] = executed[i] + 1)

\* run() has returned after three transitions and four calls of step().
C17_Witness ==
    /\ result[1] # <<>>
    /\ executed[1] = 3
    /\ calls[1] = 4
    /\ loop2_iters[1] = 0

\* C18: with a non-empty initial tape, 0 <= head < tape length after
\* construction and after every step(), and no step() indexes the tape out
\* of bounds.
C18_NonEmptyInBounds ==
    \A i \in Instances :
        (Built(i) /\ args.tape # <<>>) =>
            (0 <= head[i] /\ head[i] < Len(tape[i]) /\ panic[i] # "index")

\* The head stands on the last cell after right-extensions.
C18_Witness ==
    /\ Built(1)
    /\ args.tape # <<>>
    /\ hi[1] >= Len(args.tape) + 1
    /\ head[1] = Len(tape[1]) - 1

\* C19: new accepts an empty tape (head = 0, length 0); if initial_state is
\* not final the first step() fails on the out-of-bounds read before
\* transition is called and before anything changes; if initial_state is
\* final, step() returns false and run() returns the empty tape.
C19_EmptyTape ==
    \A i \in Instances :
        (args.tape = <<>> /\ pc[i] # "unbuilt" /\ Validate(args)) =>
            /\ Built(i)
            /\ tape[i] = <<>>
            /\ head[i] = 0
            /\ current_state[i] = args.initial_state
            /\ invoked[i] = <<>>
            /\ executed[i] = 0
            /\ IF args.initial_state \in args.final_state_set
               THEN /\ panic[i] = "none"
                    /\ calls[i] > 0 => last_ret[i] = <<FALSE>>
                    /\ result[i] # <<>> => result[i] = <<(<<>>)>>
               ELSE /\ calls[i] > 0 =>
                        (pc[i] = "panicked" /\ panic[i] = "index"
                         /\ calls[i] = 1)
                    /\ calls[i] = 0 => panic[i] = "none"
                    /\ result[i] = <<>>
                    /\ last_ret[i] = <<>>

\* The first step() on an empty tape has panicked.
C19_Witness ==
    /\ args.tape = <<>>
    /\ pc[1] = "panicked"
    /\ panic[1] = "index"
    /\ calls[1] = 1

\* Every symbol of the initial tape is in symbol_set and transition returns
\* only symbols of symbol_set and states of state_set.
ClosedInputs ==
    /\ \A k \in 1..Len(args.tape) : args.tape[k] \in args.symbol_set
    /\ \A p \in DOMAIN args.transition :
           /\ args.transition[p][1] \in args.symbol_set
           /\ args.transition[p][3] \in args.state_set

\* C20: with such inputs current_state stays in state_set and every tape
\* cell, cells added by extension included, holds a member of symbol_set.
C20_Closure ==
    \A i \in Instances :
        (Built(i) /\ ClosedInputs) =>
            /\ current_state[i] \in args.state_set
            /\ \A k \in 1..Len(tape[i]) : tape[i][k] \in args.symbol_set

\* A one-symbol machine has extended its tape.
C20_Witness ==
    /\ Built(1)
    /\ ClosedInputs
    /\ args.symbol_set = {"0"}
    /\ executed[1] >= 2
    /\ Len(tape[1]) > Len(args.tape)

====
